---- MODULE Spec2Model ----
(***************************************************************************)
(* A model of collate: the lexer, command grammar and block builder of     *)
(* block.rs, its recursive renderer, and the Library of library.rs with    *)
(* its export loop.  Text is a sequence of one-character strings.          *)
(***************************************************************************)
EXTENDS Integers, Sequences, FiniteSets, TLC

(***************************************************************************)
(* Characters and verbs (block.rs:3-12).                                   *)
(***************************************************************************)
COMMAND_FLAG == "^"
COMMAND_START == "|"
COMMAND_END == "|"

NEW_BLOCK_COMMAND == <<"n">>
DEFINE_PARAMS_COMMAND == <<"p">>
ENABLE_EXPORT_COMMAND == <<"x">>
USE_BLOCK_COMMAND == <<"u">>
USE_BLOCK_INDENTED_COMMAND == <<"u", "i">>
END_BLOCK_COMMAND == <<"e">>

NL == "\n"
TAB == "\t"
SP == " "

\* char::is_whitespace on the characters of the model's alphabet
IsWhitespace(c) == c \in {SP, NL, TAB}

(***************************************************************************)
(* Option and Result values.                                               *)
(***************************************************************************)
None == <<>>
Some(x) == <<x>>
IsSome(o) == Len(o) = 1
Unwrap(o) == o[1]

Ok(v) == [ok |-> TRUE, val |-> v]
Err(e) == [ok |-> FALSE, err |-> e]
\* an error message (a String in the code), with the values formatted into it
E(msg) == [msg |-> msg]

(***************************************************************************)
(* The data types of block.rs:14-61.                                       *)
(***************************************************************************)
ArgLiteral(s) == [type |-> "Literal", value |-> s]
ArgName(s) == [type |-> "Name", value |-> s]
ArgParamName(s) == [type |-> "ParamName", value |-> s]

ParameterName(s) == [type |-> "Name", value |-> s]
ParameterLiteral(s) == [type |-> "Literal", value |-> s]

Content(s) == [type |-> "Content", content |-> s]
UseBlock(indented, target, arguments) ==
    [type |-> "UseBlock", indented |-> indented, target |-> target,
     arguments |-> arguments]

CmdFlag(w) == [type |-> "Flag", flag |-> w]
CmdArgument(a) == [type |-> "Argument", arg |-> a]

CompOpen(name) == [type |-> "Open", name |-> name]
CompExport(path) == [type |-> "Export", value |-> path]
CompParamName(name) == [type |-> "ParamName", value |-> name]
CompElement(e) == [type |-> "Element", element |-> e]
CompClose == [type |-> "Close"]

MkBlock(name, param_names, export, elements) ==
    [name |-> name, param_names |-> param_names, export |-> export,
     elements |-> elements]

(***************************************************************************)
(* commands_from_str (block.rs:73-123): the flag word, then the arguments. *)
(***************************************************************************)
\* read_word: push characters up to, and consuming, the next whitespace
RECURSIVE read_word(_, _, _)
read_word(buffer, s, i) ==
    IF i > Len(s) THEN [buffer |-> buffer, pos |-> i]
    ELSE IF IsWhitespace(s[i]) THEN [buffer |-> buffer, pos |-> i + 1]
    ELSE read_word(Append(buffer, s[i]), s, i + 1)

\* the inner loop of the '(' arm: push characters up to, and consuming, ')'
RECURSIVE read_literal(_, _, _)
read_literal(buffer, s, i) ==
    IF i > Len(s) THEN [buffer |-> buffer, pos |-> i]
    ELSE IF s[i] = ")" THEN [buffer |-> buffer, pos |-> i + 1]
    ELSE read_literal(Append(buffer, s[i]), s, i + 1)

\* the "get arguments" loop
RECURSIVE read_arguments(_, _, _)
read_arguments(s, i, commands) ==
    IF i > Len(s) THEN commands
    ELSE IF s[i] = "#" THEN
        LET r == read_word(<<>>, s, i + 1)
        IN  read_arguments(s, r.pos,
                Append(commands, CmdArgument(ArgParamName(r.buffer))))
    ELSE IF s[i] = "(" THEN
        LET r == read_literal(<<>>, s, i + 1)
        IN  read_arguments(s, r.pos,
                Append(commands, CmdArgument(ArgLiteral(r.buffer))))
    ELSE
        \* the character is pushed whatever it is, so the buffer is never empty
        LET r == read_word(<<s[i]>>, s, i + 1)
        IN  read_arguments(s, r.pos,
                Append(commands, CmdArgument(ArgName(r.buffer))))

commands_from_str(command_str) ==
    LET r == read_word(<<>>, command_str, 1)
    IN  IF r.buffer = <<>>
        THEN Err(E("Couldn't parse command flag"))
        ELSE Ok(read_arguments(command_str, r.pos, <<CmdFlag(r.buffer)>>))

(***************************************************************************)
(* block_components_from_commands (block.rs:124-204).                      *)
(***************************************************************************)
IsNameCmd(c) == c.type = "Argument" /\ c.arg.type = "Name"

block_components_from_commands(commands) ==
    IF commands = <<>> THEN Err(E("Cannot build block from empty command list"))
    ELSE IF commands[1].type # "Flag" THEN Err(E("First command must be a flag"))
    ELSE
    LET flag == commands[1].flag
        rest == Tail(commands)
    IN  IF flag = NEW_BLOCK_COMMAND THEN
            IF rest # <<>> /\ IsNameCmd(rest[1])
            THEN Ok(<<CompOpen(rest[1].arg.value)>>)
            ELSE Err(E("New block command must provide a name"))
        ELSE IF flag = DEFINE_PARAMS_COMMAND THEN
            IF \A k \in 1..Len(rest) : IsNameCmd(rest[k])
            THEN Ok([k \in 1..Len(rest) |-> CompParamName(rest[k].arg.value)])
            ELSE Err(E("Define params can only handle Argument::Name commands"))
        ELSE IF flag = ENABLE_EXPORT_COMMAND THEN
            IF rest # <<>> /\ IsNameCmd(rest[1])
            THEN Ok(<<CompExport(rest[1].arg.value)>>)
            ELSE Err(E("Enable Expost can only handle Argument::Name commands"))
        ELSE IF flag \in {USE_BLOCK_COMMAND, USE_BLOCK_INDENTED_COMMAND} THEN
            IF rest # <<>> /\ rest[1].type = "Argument"
            THEN LET arguments == [k \in 1..(Len(rest) - 1) |-> rest[k + 1].arg]
                 IN  Ok(<<CompElement(UseBlock(
                            flag = USE_BLOCK_INDENTED_COMMAND,
                            rest[1].arg,
                            IF arguments = <<>> THEN None ELSE Some(arguments)))>>)
            ELSE Err(E("Use block expects first command to be argument"))
        ELSE IF flag = END_BLOCK_COMMAND THEN Ok(<<CompClose>>)
        ELSE Err([msg |-> "Unknown Command::Flag", flag |-> flag])

(***************************************************************************)
(* The lexer of Block::parse (block.rs:205-281).  A lexer value holds the  *)
(* locals of parse: state (and the reason of InvalidCommand), buffer,      *)
(* components, line and col.  "Panic" is the panic! of close_command and   *)
(* "Failed" the early return of the InvalidCommand arm.                    *)
(***************************************************************************)
LexInit ==
    [state |-> "Content", reason |-> E(""), buffer |-> <<>>,
     components |-> <<>>, line |-> 1, col |-> 0]

push_to_state(lx, c, state) ==
    [lx EXCEPT !.buffer = Append(lx.buffer, c), !.state = state]

close_content(lx) ==
    IF lx.buffer # <<>>
    THEN [lx EXCEPT !.components = Append(lx.components,
                                          CompElement(Content(lx.buffer))),
                    !.buffer = <<>>, !.state = "Command"]
    ELSE [lx EXCEPT !.state = "Command"]

\* the newline skipped after every command, a use included
state_after_command_always_skip(components) == "SkipNewline"

\* the last lines of close_command: no newline is skipped after a use
state_after_command(components) ==
    IF components # <<>>
       /\ components[Len(components)].type = "Element"
       /\ components[Len(components)].element.type = "UseBlock"
    THEN "Content"
    ELSE "SkipNewline"

close_command(lx) ==
    IF lx.buffer # <<>> THEN
        LET commands == commands_from_str(lx.buffer)
        IN  IF ~commands.ok
            THEN [lx EXCEPT !.buffer = <<>>, !.state = "Panic",
                            !.reason = commands.err]
            ELSE LET c == block_components_from_commands(commands.val)
                 IN  IF ~c.ok
                     THEN [lx EXCEPT !.buffer = <<>>,
                                     !.state = "InvalidCommand",
                                     !.reason = c.err]
                     ELSE LET all == lx.components \o c.val
                          IN  [lx EXCEPT !.buffer = <<>>,
                                         !.components = all,
                                         !.state = state_after_command(all)]
    ELSE [lx EXCEPT !.state = state_after_command(lx.components)]

\* the SkipNewline arm with the flag character read as Content reads it
skip_newline_flag_starts(lx, c) ==
    IF c = NL THEN [lx EXCEPT !.state = "Content"]
    ELSE IF c = COMMAND_FLAG THEN [lx EXCEPT !.state = "CommandFlag"]
    ELSE push_to_state(lx, c, "Content")

\* the SkipNewline arm of the lexer (block.rs:268-271): a newline is
\* dropped, any other character is content
skip_newline(lx, c) ==
    IF c = NL THEN [lx EXCEPT !.state = "Content"]
    ELSE push_to_state(lx, c, "Content")

\* one turn of the loop over string.chars()
lex_char(lx0, c) ==
    LET lx == [lx0 EXCEPT
                  !.line = IF c = NL THEN lx0.line + 1 ELSE lx0.line,
                  !.col = (IF c = NL THEN 0 ELSE lx0.col) + 1]
    IN  CASE lx.state = "Content" ->
                IF c = COMMAND_FLAG THEN [lx EXCEPT !.state = "CommandFlag"]
                ELSE push_to_state(lx, c, "Content")
          [] lx.state = "CommandFlag" ->
                IF c = COMMAND_START THEN close_content(lx)
                ELSE IF c = COMMAND_FLAG
                     THEN push_to_state(lx, c, "CancelledFlag")
                ELSE push_to_state(lx, c, "Content")
          [] lx.state = "Command" ->
                IF c = COMMAND_END THEN close_command(lx)
                ELSE push_to_state(lx, c, "Command")
          [] lx.state = "SkipNewline" -> skip_newline(lx, c)
          [] lx.state = "CancelledFlag" ->
                IF c = COMMAND_FLAG
                THEN push_to_state(lx, c, "CancelledFlag")
                ELSE push_to_state(lx, c, "Content")
          [] lx.state = "InvalidCommand" -> [lx EXCEPT !.state = "Failed"]
          [] OTHER -> lx0

\* the loop over string.chars(), for the characters lo..hi of the string:
\* the two halves are folded one after the other, which is the loop's order
\* (the lexer after the first half is bound as a value before the second
\* half starts, which keeps the evaluation shallow on long texts)
RECURSIVE lex_range(_, _, _, _)
lex_range(lx, string, lo, hi) ==
    IF lo > hi THEN lx
    ELSE IF lo = hi THEN lex_char(lx, string[lo])
    ELSE LET mid == (lo + hi) \div 2
         IN  CHOOSE r \in {lex_range(left, string, mid + 1, hi) :
                              left \in {lex_range(lx, string, lo, mid)}} : TRUE

\* the lexer after all of the string, or where parse returned or panicked
lex_from(lx, string) == lex_range(lx, string, 1, Len(string))

(***************************************************************************)
(* Block::build (block.rs:285-340).                                        *)
(***************************************************************************)
\* the first loop giving up at the first directive that is not an Open
RECURSIVE find_open_until_directive(_, _)
find_open_until_directive(components, i) ==
    IF i > Len(components) THEN 0
    ELSE IF components[i].type = "Open" THEN i
    ELSE IF components[i].type = "Element"
    THEN find_open_until_directive(components, i + 1)
    ELSE 0

\* the first loop: the index of the first Open at or after i, 0 if none
RECURSIVE find_open(_, _)
find_open(components, i) ==
    IF i > Len(components) THEN 0
    ELSE IF components[i].type = "Open" THEN i
    ELSE find_open(components, i + 1)

\* the last element losing every final newline
RECURSIVE trim_last_every_newline(_)
trim_last_every_newline(elements) ==
    IF elements # <<>>
       /\ elements[Len(elements)].type = "Content"
       /\ elements[Len(elements)].content # <<>>
       /\ elements[Len(elements)].content[Len(elements[Len(elements)].content)] = NL
    THEN trim_last_every_newline([elements EXCEPT ![Len(elements)] =
            Content(SubSeq(elements[Len(elements)].content, 1,
                           Len(elements[Len(elements)].content) - 1))])
    ELSE elements

\* the last element loses one final newline when the block is closed
trim_last(elements) ==
    IF elements # <<>>
       /\ elements[Len(elements)].type = "Content"
       /\ elements[Len(elements)].content # <<>>
       /\ elements[Len(elements)].content[Len(elements[Len(elements)].content)] = NL
    THEN [elements EXCEPT ![Len(elements)] =
            Content(SubSeq(elements[Len(elements)].content, 1,
                           Len(elements[Len(elements)].content) - 1))]
    ELSE elements

\* a second export of a block taking the place of the first
set_export_overwrite(export, e) == Ok(Some(e))

\* the Attribute::Export arm: a block takes one export
set_export(export, e) ==
    IF IsSome(export) THEN Err(E("Multiple exports defined"))
    ELSE Ok(Some(e))

\* a parameter name pushed without the contains() test
push_param_unchecked(param_names, v) == Ok(Append(param_names, v))

\* the Attribute::ParamName arm: a name is pushed unless it is there
push_param(param_names, v) ==
    IF \E k \in 1..Len(param_names) : param_names[k] = v
    THEN Err([msg |-> "Duplicate value defined", name |-> v])
    ELSE Ok(Append(param_names, v))

\* the second loop with an Open inside a block taken for the end of the
\* block
RECURSIVE build_body_open_closes(_, _, _)
build_body_open_closes(components, i, b) ==
    IF i > Len(components) THEN Ok([block |-> b, next |-> i])
    ELSE LET c == components[i] IN
      CASE c.type = "Open" -> Ok([block |-> b, next |-> i])
        [] c.type = "Export" ->
             LET e == set_export(b.export, c.value)
             IN  IF ~e.ok THEN e
                 ELSE build_body_open_closes(components, i + 1,
                                             [b EXCEPT !.export = e.val])
        [] c.type = "ParamName" ->
             LET p == push_param(b.param_names, c.value)
             IN  IF ~p.ok THEN p
                 ELSE build_body_open_closes(components, i + 1,
                                             [b EXCEPT !.param_names = p.val])
        [] c.type = "Element" ->
             build_body_open_closes(components, i + 1,
                        [b EXCEPT !.elements = Append(@, c.element)])
        [] c.type = "Close" ->
             Ok([block |-> [b EXCEPT !.elements = trim_last(@)],
                 next |-> i + 1])

\* the second loop, from component i on, with the block b accumulated so far:
\* Ok([block, next]) where next is the index after the Close (or the end)
RECURSIVE build_body(_, _, _)
build_body(components, i, b) ==
    IF i > Len(components) THEN Ok([block |-> b, next |-> i])
    ELSE LET c == components[i] IN
      CASE c.type = "Open" ->
             Err([msg |-> "Illegally nested block", name |-> c.name])
        [] c.type = "Export" ->
             LET e == set_export(b.export, c.value)
             IN  IF ~e.ok THEN e
                 ELSE build_body(components, i + 1,
                                 [b EXCEPT !.export = e.val])
        [] c.type = "ParamName" ->
             LET p == push_param(b.param_names, c.value)
             IN  IF ~p.ok THEN p
                 ELSE build_body(components, i + 1,
                                 [b EXCEPT !.param_names = p.val])
        [] c.type = "Element" ->
             build_body(components, i + 1,
                        [b EXCEPT !.elements = Append(@, c.element)])
        [] c.type = "Close" ->
             Ok([block |-> [b EXCEPT !.elements = trim_last(@)],
                 next |-> i + 1])

RECURSIVE build_from(_, _)
\* build_from with the block the input ends in trimmed like a closed one
build_from_trims_unclosed(components, i) ==
    LET o == find_open(components, i)
    IN  IF o = 0 THEN Ok(<<>>)
        ELSE LET r == build_body(components, o + 1,
                          MkBlock(components[o].name, <<>>, None, <<>>))
             IN  IF ~r.ok THEN r
                 ELSE LET more == build_from(components, r.val.next)
                      IN  IF ~more.ok THEN more
                          ELSE Ok(<<[r.val.block EXCEPT !.elements =
                                       IF components[r.val.next - 1].type
                                            = "Close"
                                       THEN @ ELSE trim_last(@)]>>
                                  \o more.val)

\* Block::build from component i on (block.rs:285-340): the first loop,
\* the second loop, the push of the block and the call for the rest
build_from(components, i) ==
    LET o == find_open(components, i)
    IN  IF o = 0 THEN Ok(<<>>)
        ELSE LET r == build_body(components, o + 1,
                          MkBlock(components[o].name, <<>>, None, <<>>))
             IN  IF ~r.ok THEN r
                 ELSE LET more == build_from(components, r.val.next)
                      IN  IF ~more.ok THEN more
                          ELSE Ok(<<r.val.block>> \o more.val)

\* build with the content of a text without an Open made into one block
build_implicit_block(components) ==
    IF components # <<>>
       /\ \A k \in 1..Len(components) : components[k].type = "Element"
    THEN Ok(<<MkBlock(<<>>, <<>>, None,
                      [k \in 1..Len(components) |-> components[k].element])>>)
    ELSE build_from(components, 1)

build(components) == build_from(components, 1)

(***************************************************************************)
(* Block::parse (block.rs:64-284).                                         *)
(***************************************************************************)
PanicMsg == "panic"

parse(string) ==
    LET lx == lex_from(LexInit, string)
    IN  IF lx.state = "Panic"
        THEN Err([msg |-> PanicMsg, reason |-> lx.reason])
        ELSE IF lx.state = "Failed"
        THEN Err([msg |-> "Invalid command", line |-> lx.line,
                  col |-> lx.col, reason |-> lx.reason])
        ELSE build(close_content(lx).components)

(***************************************************************************)
(* The renderer (block.rs:341-460).  A library is a function from block    *)
(* names to blocks.  The code recurses without a cycle check, so a render  *)
(* that nests deeper than MaxDepth calls is the stack overflow that aborts *)
(* the process.                                                            *)
(***************************************************************************)
MaxDepth == 4

OverflowMsg == "stack overflow"

Range(f) == {f[k] : k \in DOMAIN f}

\* the zip with the values taken from the last to the first
build_params_reversed(values, params) ==
    IF Len(values) = Len(params)
    THEN Ok([n \in Range(values) |->
               params[Len(values) + 1
                      - CHOOSE k \in 1..Len(values) :
                          /\ values[k] = n
                          /\ \A j \in (k + 1)..Len(values) : values[j] # n]])
    ELSE Err([msg |-> "Expected parameter(s), received",
              expected |-> Len(values), received |-> Len(params)])

\* build_params: the zip of the names and the values, as a map
build_params(values, params) ==
    IF Len(values) = Len(params)
    THEN Ok([n \in Range(values) |->
               params[CHOOSE k \in 1..Len(values) :
                        /\ values[k] = n
                        /\ \A j \in (k + 1)..Len(values) : values[j] # n]])
    ELSE Err([msg |-> "Expected parameter(s), received",
              expected |-> Len(values), received |-> Len(params)])

\* evaluate with a literal taken for the name of a block
evaluate_literal_as_name(arg, params) ==
    CASE arg.type = "Literal" -> Ok(ParameterName(arg.value))
      [] arg.type = "Name" -> Ok(ParameterName(arg.value))
      [] arg.type = "ParamName" ->
            IF arg.value \in DOMAIN params THEN Ok(params[arg.value])
            ELSE Err([msg |-> "Param named does not exist",
                      name |-> arg.value])

evaluate(arg, params) ==
    CASE arg.type = "Literal" -> Ok(ParameterLiteral(arg.value))
      [] arg.type = "Name" -> Ok(ParameterName(arg.value))
      [] arg.type = "ParamName" ->
            IF arg.value \in DOMAIN params THEN Ok(params[arg.value])
            ELSE Err([msg |-> "Param named does not exist",
                      name |-> arg.value])

\* the arguments of a use, evaluated in order; the first error is returned
RECURSIVE evaluate_all(_, _, _)
evaluate_all(args, params, i) ==
    IF i > Len(args) THEN Ok(<<>>)
    ELSE LET r == evaluate(args[i], params)
         IN  IF ~r.ok THEN r
             ELSE LET more == evaluate_all(args, params, i + 1)
                  IN  IF ~more.ok THEN more ELSE Ok(<<r.val>> \o more.val)

HasNewline(content) == \E k \in 1..Len(content) : content[k] = NL

\* the number of leading tabs of the text that starts at index i
RECURSIVE leading_tabs(_, _)
leading_tabs(content, i) ==
    IF i <= Len(content) /\ content[i] = TAB
    THEN 1 + leading_tabs(content, i + 1)
    ELSE 0

\* the leading tabs of the first line taken for those of the last line
last_line_indent_of_first_line(content) == leading_tabs(content, 1)

\* "get indentation of current line": the leading tabs of the last line
last_line_indent(content) ==
    LET last == CHOOSE k \in 1..Len(content) :
                    /\ content[k] = NL
                    /\ \A j \in (k + 1)..Len(content) : content[j] # NL
    IN  leading_tabs(content, last + 1)

Tabs(n) == [k \in 1..n |-> TAB]

\* "apply indentation to the content", for the characters lo..hi
RECURSIVE indent_range(_, _, _, _)
indent_range(content, indentation, lo, hi) ==
    IF lo > hi THEN <<>>
    ELSE IF lo = hi
    THEN (IF content[lo] = NL THEN <<NL>> \o Tabs(indentation)
          ELSE <<content[lo]>>)
    ELSE LET mid == (lo + hi) \div 2
         IN  indent_range(content, indentation, lo, mid)
             \o indent_range(content, indentation, mid + 1, hi)

\* the indentation put in front of the first line as well
apply_indentation_first_line_too(content, indentation) ==
    IF indentation = 0 THEN content
    ELSE Tabs(indentation) \o indent_range(content, indentation, 1, Len(content))

apply_indentation(content, indentation) ==
    IF indentation = 0 THEN content
    ELSE indent_range(content, indentation, 1, Len(content))

\* the indentation passed on without the indentation of the current line
callee_indentation_without_nested(indented, indentation, nested_indent) ==
    IF indented THEN indentation ELSE 0

\* the indentation a use passes to the block it calls
callee_indentation(indented, indentation, nested_indent) ==
    IF indented THEN indentation + nested_indent ELSE 0

\* whether the Option of evaluated parameters makes build_params run
bind_params(param_names, params) ==
    IF IsSome(params) THEN build_params(param_names, Unwrap(params))
    ELSE Ok(<<>>)

RECURSIVE render_with_params(_, _, _, _, _)
RECURSIVE render_elements(_, _, _, _, _, _, _, _)

\* the loop over self.elements from element i on; nested is nested_indent
render_elements(block, library, params, indentation, i, nested, buffer, depth) ==
    IF i > Len(block.elements) THEN Ok(buffer)
    ELSE LET element == block.elements[i] IN
      IF element.type = "Content" THEN
          render_elements(block, library, params, indentation, i + 1,
              IF HasNewline(element.content)
              THEN last_line_indent(element.content) ELSE nested,
              buffer \o apply_indentation(element.content, indentation),
              depth)
      ELSE
          LET target_param == evaluate(element.target, params) IN
          IF ~target_param.ok THEN target_param
          ELSE IF target_param.val.type = "Literal" THEN
              render_elements(block, library, params, indentation, i + 1,
                  nested, buffer \o target_param.val.value, depth)
          ELSE IF target_param.val.value \notin DOMAIN library THEN
              Err([msg |-> "Using unregistered block",
                   name |-> target_param.val.value])
          ELSE
              LET parameters ==
                      IF IsSome(element.arguments)
                      THEN evaluate_all(Unwrap(element.arguments), params, 1)
                      ELSE Ok(<<>>)
              IN  IF ~parameters.ok THEN parameters
                  ELSE LET s == render_with_params(
                                   library[target_param.val.value], library,
                                   IF IsSome(element.arguments)
                                   THEN Some(parameters.val) ELSE None,
                                   callee_indentation(element.indented,
                                       indentation, nested),
                                   depth + 1)
                       IN  IF ~s.ok THEN s
                           ELSE render_elements(block, library, params,
                                    indentation, i + 1, nested,
                                    buffer \o s.val, depth)

render_with_params(block, library, params, indentation, depth) ==
    IF depth > MaxDepth THEN Err(E(OverflowMsg))
    ELSE LET bound == bind_params(block.param_names, params)
         IN  IF ~bound.ok THEN bound
             ELSE render_elements(block, library, bound.val, indentation, 1,
                                  0, <<>>, depth)

\* Block::render
render(block, library) == render_with_params(block, library, None, 0, 1)

(***************************************************************************)
(* The Library (library.rs:4-109).                                         *)
(***************************************************************************)
\* The Export type that library.rs matches on is declared outside the given
\* sources; block.rs keeps the argument of the x command.  The word below
\* is the sentinel that marks a block export, any other word is a path.
BLOCK_EXPORT_SENTINEL == <<"@">>

export_kind(export) ==
    IF export = BLOCK_EXPORT_SENTINEL THEN "Block" ELSE "File"

\* Library::new
new_library == [blocks |-> <<>>, block_exports |-> <<>>, file_exports |-> <<>>]

\* HashMap::insert
insert(map, key, value) ==
    [k \in (DOMAIN map) \cup {key} |-> IF k = key THEN value ELSE map[k]]

\* the registration with the file export filed under its path
registered_keyed_by_path(lib, block) ==
    [blocks |-> insert(lib.blocks, block.name, block),
     block_exports |->
         IF IsSome(block.export)
            /\ export_kind(Unwrap(block.export)) = "Block"
         THEN Append(lib.block_exports, block.name)
         ELSE lib.block_exports,
     file_exports |->
         IF IsSome(block.export)
            /\ export_kind(Unwrap(block.export)) = "File"
         THEN insert(lib.file_exports, Unwrap(block.export), block.name)
         ELSE lib.file_exports]

\* the registration of a block, one field at a time
registered(lib, block) ==
    [blocks |-> insert(lib.blocks, block.name, block),
     block_exports |->
         IF IsSome(block.export)
            /\ export_kind(Unwrap(block.export)) = "Block"
         THEN Append(lib.block_exports, block.name)
         ELSE lib.block_exports,
     file_exports |->
         IF IsSome(block.export)
            /\ export_kind(Unwrap(block.export)) = "File"
         THEN insert(lib.file_exports, block.name, Unwrap(block.export))
         ELSE lib.file_exports]

\* register without the contains_key test: a taken name is overwritten
register_overwrite(lib, block) == Ok(registered(lib, block))

\* register with every use of a block name resolved at once
register_resolved(lib, block) ==
    IF block.name \in DOMAIN lib.blocks
    THEN Err([msg |-> "Name taken", name |-> block.name])
    ELSE IF \E k \in 1..Len(block.elements) :
               /\ block.elements[k].type = "UseBlock"
               /\ block.elements[k].target.type = "Name"
               /\ block.elements[k].target.value \notin DOMAIN lib.blocks
    THEN Err([msg |-> "Using unregistered block", name |-> block.name])
    ELSE Ok(registered(lib, block))

\* one turn of the loop of import_from_string, for one parsed block
register(lib, block) ==
    IF block.name \in DOMAIN lib.blocks
    THEN Err([msg |-> "Name taken", name |-> block.name])
    ELSE Ok(registered(lib, block))

\* the loop of import_from_string from parsed block i on: the library as the
\* call leaves it, and the Result of the call
RECURSIVE register_all(_, _, _)
register_all(lib, parsed, i) ==
    IF i > Len(parsed) THEN [lib |-> lib, result |-> Ok(<<>>)]
    ELSE LET r == register(lib, parsed[i])
         IN  IF ~r.ok THEN [lib |-> lib, result |-> r]
             ELSE register_all(r.val, parsed, i + 1)

\* import_from_string that merges nothing of a unit it refuses
import_from_string_atomic(lib, string) ==
    LET parsed == parse(string)
        r == register_all(lib, parsed.val, 1)
    IN  IF ~parsed.ok THEN [lib |-> lib, result |-> parsed]
        ELSE IF r.result.ok THEN r
        ELSE [lib |-> lib, result |-> r.result]

import_from_string(lib, string) ==
    LET parsed == parse(string)
    IN  IF ~parsed.ok THEN [lib |-> lib, result |-> parsed]
        ELSE register_all(lib, parsed.val, 1)

\* Library::render
library_render(lib, name) ==
    IF name \notin DOMAIN lib.blocks
    THEN Err([msg |-> "Library::render(): block not found", name |-> name])
    ELSE LET r == render(lib.blocks[name], lib.blocks)
         IN  IF r.ok THEN r
             ELSE Err([msg |-> "Library::render(): block", name |-> name,
                       inner |-> r.err])

\* whether a failed Result is the process dying (a panic or a stack
\* overflow) instead of an Err the caller gets back
RECURSIVE IsAbort(_)
IsAbort(r) ==
    /\ ~r.ok
    /\ \/ r.err.msg \in {PanicMsg, OverflowMsg}
       \/ /\ "inner" \in DOMAIN r.err
          /\ IsAbort(Err(r.err.inner))

(***************************************************************************)
(* Source texts.  Line(body) is a command on a line of its own, Cmd(body)  *)
(* a command inside a line, Esc(k, body) the text that gives Cmd(body)     *)
(* after k renders (k + 1 flag characters lose one at each parse).         *)
(***************************************************************************)
Cmd(body) == <<COMMAND_FLAG, COMMAND_START>> \o body \o <<COMMAND_END>>
Line(body) == Cmd(body) \o <<NL>>
Esc(k, body) == [j \in 1..k |-> COMMAND_FLAG] \o Cmd(body) \o <<NL>>

Open(name) == Line(NEW_BLOCK_COMMAND \o <<SP>> \o name)
Params(names) == Line(DEFINE_PARAMS_COMMAND \o <<SP>> \o names)
Export(path) == Line(ENABLE_EXPORT_COMMAND \o <<SP>> \o path)
Use(args) == Cmd(USE_BLOCK_COMMAND \o <<SP>> \o args) \o <<NL>>
Close == Line(END_BLOCK_COMMAND)

\* a unit that defines X, and a unit that defines X twice
SrcX == Open(<<"X">>) \o <<"a", "b", NL>> \o Close
SrcTwice == Open(<<"X">>) \o <<"v", NL>> \o Close
            \o Open(<<"X">>) \o <<"w", NL>> \o Close
\* g takes one parameter; m, l, z and t use it, or a literal, in several ways
SrcGreet ==
    Open(<<"g">>) \o Params(<<"a">>) \o <<"H", "i", SP>>
        \o Cmd(<<"u", SP, "#", "a">>) \o <<"!", NL>> \o Close
    \o Open(<<"m">>) \o Use(<<"g", SP, "(", "X", ")">>) \o Close
    \o Open(<<"l">>) \o Use(<<"(", "X", ")">>) \o Close
    \o Open(<<"z">>) \o Use(<<"g">>) \o Close
    \o Open(<<"t">>) \o Use(<<"g", SP, "X", SP, "X">>) \o Close
\* Y uses X, which another unit defines; L uses itself
SrcY == Open(<<"Y">>) \o Use(<<"X">>) \o Close
        \o Open(<<"L">>) \o Use(<<"L">>) \o Close
\* G is a block export whose render defines the plain block K
SrcG == Open(<<"G">>) \o Export(BLOCK_EXPORT_SENTINEL)
        \o Esc(1, <<"n", SP, "K">>) \o <<"h", NL>> \o Esc(1, <<"e">>)
        \o Close
\* R is a block export whose render declares a block export named R
SrcR == Open(<<"R">>) \o Export(BLOCK_EXPORT_SENTINEL)
        \o Esc(1, <<"n", SP, "R">>)
        \o Esc(1, <<"x", SP>> \o BLOCK_EXPORT_SENTINEL)
        \o Esc(1, <<"e">>) \o Close
\* C is a block export whose render defines the block export D, whose
\* render defines the file export J
SrcC == Open(<<"C">>) \o Export(BLOCK_EXPORT_SENTINEL)
        \o Esc(1, <<"n", SP, "D">>)
        \o Esc(1, <<"x", SP>> \o BLOCK_EXPORT_SENTINEL)
        \o Esc(2, <<"n", SP, "J">>) \o Esc(2, <<"x", SP, "o">>)
        \o <<"j", NL>> \o Esc(2, <<"e">>)
        \o Esc(1, <<"e">>) \o Close
\* two file exports: F renders alone, Q needs X
SrcF == Open(<<"F">>) \o Export(<<"f">>) \o <<"a", NL>> \o Close
        \o Open(<<"Q">>) \o Export(<<"q">>) \o Use(<<"X">>) \o Close

Sources == <<SrcX, SrcTwice, SrcGreet, SrcY, SrcG, SrcR, SrcC, SrcF>>

\* the names Library::render is asked for
RenderNames == {<<"g">>, <<"m">>, <<"z">>, <<"Y">>, <<"L">>, <<"K">>}

\* what the file system does with one export: both calls succeed, or
\* create_dir_all fails, or fs::write fails
IoOutcomes == {"ok", "create_dir_all fails", "write fails"}

MaxImports == 2
MaxExportCalls == 1

(***************************************************************************)
(* The state: the Library's three fields, the output directory, where the  *)
(* running export_all stands (pc, with its locals todo and files_todo),    *)
(* the last call that returned (op), the source texts import_from_string   *)
(* was called with, in order (imported), and what the current or last      *)
(* export_all did, in order (log).  source, fed and lx are the input and   *)
(* the lexer of the parser's own specification further down.               *)
(***************************************************************************)
VARIABLES blocks, block_exports, file_exports, output, pc, todo, files_todo,
          op, log, imported, export_calls, source, fed, lx

lib_vars == <<blocks, block_exports, file_exports>>
call_vars ==
    <<output, pc, todo, files_todo, op, log, imported, export_calls>>
parse_vars == <<source, fed, lx>>
vars == <<lib_vars, call_vars, parse_vars>>

Lib == [blocks |-> blocks, block_exports |-> block_exports,
        file_exports |-> file_exports]

SetLib(lib) ==
    /\ blocks' = lib.blocks
    /\ block_exports' = lib.block_exports
    /\ file_exports' = lib.file_exports

Init ==
    /\ blocks = new_library.blocks
    /\ block_exports = new_library.block_exports
    /\ file_exports = new_library.file_exports
    /\ output = <<>>
    /\ pc = "idle"
    /\ todo = <<>>
    /\ files_todo = {}
    /\ op = [name |-> "new"]
    /\ log = <<>>
    /\ imported = <<>>
    /\ export_calls = 0
    /\ source = <<>>
    /\ fed = 0
    /\ lx = LexInit

\* a call returns r to its caller, or the process dies in it
Return(name, arg, r) ==
    /\ op' = [name |-> name, arg |-> arg, result |-> r]
    /\ pc' = IF IsAbort(r) THEN "aborted" ELSE "idle"

\* Library::import_from_string on the i-th source text (library.rs:41-62)
ImportFromString(i) ==
    /\ pc = "idle"
    /\ Len(imported) < MaxImports
    /\ LET r == import_from_string(Lib, Sources[i])
       IN  /\ SetLib(r.lib)
           /\ Return("import_from_string", i, r.result)
    /\ imported' = Append(imported, i)
    /\ UNCHANGED <<output, todo, files_todo, log, export_calls, parse_vars>>

\* Library::render (library.rs:64-73)
LibraryRender(name) ==
    /\ pc = "idle"
    /\ Return("render", name, library_render(Lib, name))
    /\ UNCHANGED <<lib_vars, output, todo, files_todo, log, imported,
                   export_calls, parse_vars>>

\* the head of the loop without self.block_exports.clear()
ExportAllBegin_no_clear ==
    /\ pc = "idle"
    /\ export_calls < MaxExportCalls
    /\ export_calls' = export_calls + 1
    /\ pc' = "expand"
    /\ todo' = block_exports
    /\ log' = <<[ev |-> "pass", snapshot |-> block_exports]>>
    /\ UNCHANGED <<lib_vars, output, files_todo, op, imported, parse_vars>>

\* export_all, library.rs:76-79: the head of the loop
ExportAllBegin ==
    /\ pc = "idle"
    /\ export_calls < MaxExportCalls
    /\ export_calls' = export_calls + 1
    /\ pc' = "expand"
    /\ todo' = block_exports
    /\ block_exports' = <<>>
    /\ log' = <<[ev |-> "pass", snapshot |-> block_exports]>>
    /\ UNCHANGED <<blocks, file_exports, output, files_todo, op, imported,
                   parse_vars>>

\* export_all, library.rs:80-84: one block export is rendered and its text
\* imported
ExpandStep ==
    /\ pc = "expand"
    /\ todo # <<>>
    /\ LET block_name == Head(todo)
           r == library_render(Lib, block_name)
           reimport == import_from_string(Lib, r.val)
       IN  IF ~r.ok
           THEN /\ Return("export_all", <<>>, r)
                /\ log' = Append(log, [ev |-> "render", name |-> block_name,
                                       result |-> r])
                /\ UNCHANGED lib_vars
           ELSE /\ SetLib(reimport.lib)
                /\ log' = log \o
                      <<[ev |-> "render", name |-> block_name, result |-> r],
                        [ev |-> "import", text |-> r.val,
                         result |-> reimport.result]>>
                /\ IF reimport.result.ok
                   THEN UNCHANGED <<op, pc>>
                   ELSE Return("export_all", <<>>, reimport.result)
    /\ todo' = Tail(todo)
    /\ UNCHANGED <<output, files_todo, imported, export_calls, parse_vars>>

\* the end of a pass that goes on to the file exports whatever is pending
ExpandCheck_no_fixed_point ==
    /\ pc = "expand"
    /\ todo = <<>>
    /\ pc' = "flush"
    /\ files_todo' = DOMAIN file_exports
    /\ UNCHANGED <<lib_vars, todo, log, output, op, imported, export_calls,
                   parse_vars>>

\* export_all, library.rs:86-91: another pass, or on to the file exports
ExpandCheck ==
    /\ pc = "expand"
    /\ todo = <<>>
    /\ IF block_exports = <<>>
       THEN /\ pc' = "flush"
            /\ files_todo' = DOMAIN file_exports
            /\ UNCHANGED <<block_exports, todo, log>>
       ELSE /\ todo' = block_exports
            /\ block_exports' = <<>>
            /\ log' = Append(log, [ev |-> "pass",
                                   snapshot |-> block_exports])
            /\ UNCHANGED <<pc, files_todo>>
    /\ UNCHANGED <<blocks, file_exports, output, op, imported, export_calls,
                   parse_vars>>

\* export_all, library.rs:93-105: one file export, in the HashMap's order
FlushStep(block_name, io) ==
    /\ pc = "flush"
    /\ block_name \in files_todo
    /\ LET r == library_render(Lib, block_name)
           path == file_exports[block_name]
       IN  /\ log' = log \o
                  <<[ev |-> "file_render", name |-> block_name, result |-> r]>>
                  \o (IF r.ok /\ io = "ok"
                      THEN <<[ev |-> "write", path |-> path]>> ELSE <<>>)
           /\ IF ~r.ok THEN /\ Return("export_all", <<>>, r)
                            /\ UNCHANGED output
              ELSE IF io # "ok"
              THEN /\ Return("export_all", <<>>,
                             Err([msg |-> io, name |-> block_name]))
                   /\ UNCHANGED output
              ELSE /\ output' = insert(output, path, r.val)
                   /\ UNCHANGED <<op, pc>>
    /\ files_todo' = files_todo \ {block_name}
    /\ UNCHANGED <<lib_vars, todo, imported, export_calls, parse_vars>>

\* export_all, library.rs:107
FlushDone ==
    /\ pc = "flush"
    /\ files_todo = {}
    /\ Return("export_all", <<>>, Ok(<<>>))
    /\ UNCHANGED <<lib_vars, output, todo, files_todo, log, imported,
                   export_calls, parse_vars>>

Next ==
    \/ \E i \in 1..Len(Sources) : ImportFromString(i)
    \/ \E name \in RenderNames : LibraryRender(name)
    \/ ExportAllBegin
    \/ ExpandStep
    \/ ExpandCheck
    \/ \E block_name \in files_todo, io \in IoOutcomes :
           FlushStep(block_name, io)
    \/ FlushDone

Spec == Init /\ [][Next]_vars

(***************************************************************************)
(* The parser on its own: a source text grows by one piece at a time and   *)
(* the lexer of Block::parse follows it; parse(source) is what the call    *)
(* returns when the text ends there.                                       *)
(***************************************************************************)
MaxPieces == 4

Pieces ==
    {<<"a">>, <<NL>>, <<COMMAND_FLAG>>, <<COMMAND_START>>,
     Open(<<"X">>), Params(<<"a">>), Export(<<"f">>), Close,
     Cmd(<<"u", SP, "B">>), Cmd(<<"u", "i", SP, "B">>),
     Line(<<"z">>)}

\* the next characters of the input reach the lexer (block.rs:248-280)
Feed(piece) ==
    /\ fed < MaxPieces
    /\ fed' = fed + 1
    /\ source' = source \o piece
    /\ lx' = lex_from(lx, piece)
    /\ UNCHANGED <<lib_vars, call_vars>>

ParseNext == \E piece \in Pieces : Feed(piece)

ParseSpec == Init /\ [][ParseNext]_vars

(***************************************************************************)
(* The parser fed with commands the grammar has to judge: bare verbs, an   *)
(* unknown verb, an argument of the wrong kind, with and without a line    *)
(* end after them.                                                         *)
(***************************************************************************)
GrammarPieces ==
    {<<"a">>, <<NL>>, Open(<<"X">>), Close,
     Cmd(NEW_BLOCK_COMMAND), Cmd(DEFINE_PARAMS_COMMAND),
     Cmd(ENABLE_EXPORT_COMMAND), Cmd(USE_BLOCK_COMMAND),
     Cmd(USE_BLOCK_INDENTED_COMMAND), Cmd(<<"z">>),
     Cmd(<<"x", SP, "#", "a">>)}

GrammarNext == \E piece \in GrammarPieces : Feed(piece)

GrammarSpec == Init /\ [][GrammarNext]_vars

(***************************************************************************)
(* The parser fed with the directives Block::build has to put together:    *)
(* two block names, parameters declared one or two at a time, two export   *)
(* paths, content and a use.                                               *)
(***************************************************************************)
BuildPieces ==
    {<<"a">>, <<NL>>, Open(<<"X">>), Open(<<"Y">>),
     Params(<<"a">>), Params(<<"b">>), Params(<<"a", SP, "a">>),
     Export(<<"f">>), Export(<<"g">>), Close, Cmd(<<"u", SP, "B">>)}

BuildNext == \E piece \in BuildPieces : Feed(piece)

BuildSpec == Init /\ [][BuildNext]_vars

(***************************************************************************)
(* The parser fed with commands that have no line end after them, so that  *)
(* a command, a flag character or content comes directly after the end     *)
(* delimiter of another command.                                           *)
(***************************************************************************)
AdjacentCommands ==
    {Cmd(NEW_BLOCK_COMMAND \o <<SP, "X">>), Cmd(END_BLOCK_COMMAND),
     Cmd(DEFINE_PARAMS_COMMAND \o <<SP, "a">>), Cmd(<<"u", SP, "B">>)}

AdjacentPieces == {<<"a">>, <<NL>>, <<COMMAND_FLAG>>} \cup AdjacentCommands

AdjacentNext == \E piece \in AdjacentPieces : Feed(piece)

AdjacentSpec == Init /\ [][AdjacentNext]_vars

(***************************************************************************)
(* The renderer on its own: a content text grows by one character at a     *)
(* time; it is rendered as the only element of a block at an indentation   *)
(* a caller can pass, or as the content in front of a use of a block of a  *)
(* small library.                                                          *)
(***************************************************************************)
MaxContent == 5
MaxIndent == 2

ContentPieces == {<<"a">>, <<NL>>, <<TAB>>}

\* B has one line, T has two
SrcIndent ==
    Open(<<"B">>) \o <<"b", NL>> \o Close
    \o Open(<<"T">>) \o <<"b", NL, "c", NL>> \o Close

\* the blocks map after import_from_string of SrcIndent, written out
IndentLibrary ==
    [name \in {<<"B">>, <<"T">>} |->
        MkBlock(name, <<>>, None,
                <<Content(IF name = <<"B">> THEN <<"b">>
                          ELSE <<"b", NL, "c">>)>>)]

\* the block that holds the content, and the block that holds the content
\* and then a use of the target
ContentBlock(content) == MkBlock(<<"I">>, <<>>, None, <<Content(content)>>)

UsingBlock(content, indented, target) ==
    MkBlock(<<"I">>, <<>>, None,
            <<Content(content), UseBlock(indented, ArgName(target), None)>>)

WriteContent(piece) ==
    /\ fed < MaxContent
    /\ fed' = fed + 1
    /\ source' = source \o piece
    /\ UNCHANGED <<lib_vars, call_vars, lx>>

\* render_with_params on a block of one Content, as a use at indentation
\* d calls it (block.rs:451)
RenderContent(d) ==
    /\ pc = "idle"
    /\ Return("render_with_params",
              [content |-> source, indentation |-> d],
              render_with_params(ContentBlock(source), IndentLibrary,
                                 None, d, 1))
    /\ UNCHANGED <<lib_vars, output, todo, files_todo, log, imported,
                   export_calls, parse_vars>>

\* Block::render on a block whose content is followed by a use
RenderUse(indented, target) ==
    /\ pc = "idle"
    /\ Return("render",
              [content |-> source, indented |-> indented,
               target |-> target],
              render(UsingBlock(source, indented, target), IndentLibrary))
    /\ UNCHANGED <<lib_vars, output, todo, files_todo, log, imported,
                   export_calls, parse_vars>>

\* the block that holds the first k characters of the content, a use of
\* B, the rest of the content, a ui and then a u of T
SplitBlock(content, k) ==
    MkBlock(<<"I">>, <<>>, None,
            <<Content(SubSeq(content, 1, k)),
              UseBlock(FALSE, ArgName(<<"B">>), None),
              Content(SubSeq(content, k + 1, Len(content))),
              UseBlock(TRUE, ArgName(<<"T">>), None),
              UseBlock(FALSE, ArgName(<<"T">>), None)>>)

\* render_with_params on that block, as a use at indentation d calls it
RenderSplit(k, d) ==
    /\ pc = "idle"
    /\ k <= Len(source)
    /\ Return("render_with_params of uses",
              [content |-> source, split |-> k, indentation |-> d],
              render_with_params(SplitBlock(source, k), IndentLibrary,
                                 None, d, 1))
    /\ UNCHANGED <<lib_vars, output, todo, files_todo, log, imported,
                   export_calls, parse_vars>>

RenderNext ==
    \/ \E piece \in ContentPieces : WriteContent(piece)
    \/ \E d \in 0..MaxIndent : RenderContent(d)
    \/ \E indented \in BOOLEAN, target \in DOMAIN IndentLibrary :
          RenderUse(indented, target)

RenderSpec == Init /\ [][RenderNext]_vars

\* the renderer on blocks of several elements
NestedNext ==
    \/ \E piece \in ContentPieces : WriteContent(piece)
    \/ \E k \in 0..MaxContent, d \in 0..MaxIndent : RenderSplit(k, d)

NestedSpec == Init /\ [][NestedNext]_vars

(***************************************************************************)
(* The renderer on a call with arguments: the block M, with the parameter  *)
(* p, uses the block G with the arguments written so far; G shows its two  *)
(* parameters a and b with a dash between them.  M is rendered as a use    *)
(* that passes it a value for p calls it, or as Block::render does.        *)
(***************************************************************************)
MaxArgs == 3

ArgPieces == {<<"(", "L", ")">>, <<"X">>, <<"#", "p">>, <<"#", "a">>}

\* what the caller of M passes
CallerParams ==
    {None, Some(<<ParameterLiteral(<<"V">>)>>),
     Some(<<ParameterName(<<"X">>)>>)}

\* the blocks map after import_from_string of the text of G and X
CallLibrary ==
    [name \in {<<"G">>, <<"X">>} |->
        IF name = <<"G">>
        THEN MkBlock(name, <<<<"a">>, <<"b">>>>, None,
                     <<UseBlock(FALSE, ArgParamName(<<"a">>), None),
                       Content(<<"-">>),
                       UseBlock(FALSE, ArgParamName(<<"b">>), None)>>)
        ELSE MkBlock(name, <<>>, None, <<Content(<<"x">>)>>)]

\* the source text of M around the arguments
CallText(arguments) ==
    Open(<<"M">>) \o Params(<<"p">>)
    \o Cmd(<<"u", SP, "G">> \o arguments) \o Close

\* one more argument is written; the word after a literal needs no space
WriteArg(piece) ==
    /\ fed < MaxArgs
    /\ fed' = fed + 1
    /\ source' = source
                  \o (IF source # <<>> /\ source[Len(source)] = ")"
                      THEN <<>> ELSE <<SP>>)
                  \o piece
    /\ UNCHANGED <<lib_vars, call_vars, lx>>

\* render_with_params on M (block.rs:344-460)
RenderCall(params) ==
    /\ pc = "idle"
    /\ LET caller == parse(CallText(source)).val[1]
       IN  Return("render_with_params of a call",
                  [block |-> caller, params |-> params],
                  render_with_params(caller, CallLibrary, params, 0, 1))
    /\ UNCHANGED <<lib_vars, output, todo, files_todo, log, imported,
                   export_calls, parse_vars>>

CallNext ==
    \/ \E piece \in ArgPieces : WriteArg(piece)
    \/ \E params \in CallerParams : RenderCall(params)

CallSpec == Init /\ [][CallNext]_vars

(***************************************************************************)
(* What the claims quantify over: the parameters a call can pass, and the  *)
(* block made of the first i elements of a block, whose render is the      *)
(* buffer of the render loop after i elements.                             *)
(***************************************************************************)
ParamValues == {ParameterLiteral(<<"X">>), ParameterName(<<"X">>)}

ParamVectors ==
    {None} \cup {Some(<<v>>) : v \in ParamValues}
           \cup {Some(<<v, w>>) : v \in ParamValues, w \in ParamValues}

Received(ps) == IF IsSome(ps) THEN Len(Unwrap(ps)) ELSE 0

Prefix(block, i) == [block EXCEPT !.elements = SubSeq(block.elements, 1, i)]

Without(library, name) ==
    [n \in (DOMAIN library) \ {name} |-> library[n]]

ArityError(expected, received) ==
    [msg |-> "Expected parameter(s), received", expected |-> expected,
     received |-> received]

\* a block whose elements are content, literals and its own parameters
BodyResolves(block, ps) ==
    \A i \in 1..Len(block.elements) :
        LET e == block.elements[i]
        IN  \/ e.type = "Content"
            \/ e.target.type = "Literal"
            \/ /\ e.target.type = "ParamName"
               /\ e.target.value \in Range(block.param_names)
               /\ IsSome(ps)
               /\ \A k \in 1..Len(Unwrap(ps)) : Unwrap(ps)[k].type = "Literal"

\* C1: a block with k parameters rendered with j # k arguments fails with
\* the arity error (expected k, received j), also for j = 0 (a use without
\* arguments, a top-level render); rendered with k arguments that resolve,
\* it succeeds.
C1_ArityChecked ==
    \A n \in DOMAIN blocks : \A ps \in ParamVectors :
        LET k == Len(blocks[n].param_names)
            j == Received(ps)
            r == render_with_params(blocks[n], blocks, ps, 0, 1)
        IN  /\ j # k => (~r.ok /\ r.err = ArityError(k, j))
            /\ (j = k /\ BodyResolves(blocks[n], ps)) => r.ok

\* what Block::parse returns for each source text
ParsedSources == [i \in 1..Len(Sources) |-> parse(Sources[i])]

\* the names a parsed source text defines, in order
DefinedNames(parsed) ==
    IF parsed.ok THEN [k \in 1..Len(parsed.val) |-> parsed.val[k].name]
    ELSE <<>>

\* the places of a sequence of defined names that hold a name which is
\* registered, or which the sequence holds before
TakenAt(names, registered_names) ==
    {k \in 1..Len(names) :
        \/ names[k] \in registered_names
        \/ \E j \in 1..(k - 1) : names[j] = names[k]}

FirstTaken(names, registered_names) ==
    names[CHOOSE k \in TakenAt(names, registered_names) :
        \A j \in TakenAt(names, registered_names) : k <= j]

\* C2: importing a source text that defines a name which an earlier import
\* has registered, or which the text itself has defined before, fails with
\* the name-collision error for that name, whatever the order of the two.
C2_NameCollision ==
    [][\A i \in 1..Len(Sources) :
         (pc = "idle" /\ imported' = Append(imported, i))
         => \A names \in {DefinedNames(ParsedSources[i])} :
              TakenAt(names, DOMAIN blocks) # {}
              => /\ op'.name = "import_from_string"
                 /\ op'.result =
                      Err([msg |-> "Name taken",
                           name |-> FirstTaken(names, DOMAIN blocks)])]_vars

\* the unit that defines X was imported after another unit that defines X,
\* and was refused
C2_Witness ==
    /\ Len(imported) = 2
    /\ Sources[imported[1]] = SrcTwice
    /\ Sources[imported[2]] = SrcX
    /\ op.name = "import_from_string"
    /\ op.result = Err([msg |-> "Name taken", name |-> <<"X">>])

\* the literal a use target stands for: written (s), or #p with the p-th
\* parameter bound to Literal(s); None when it stands for no literal
TargetLiteral(block, ps, target) ==
    IF target.type = "Literal" THEN Some(target.value)
    ELSE IF /\ target.type = "ParamName"
            /\ IsSome(ps)
            /\ Len(Unwrap(ps)) = Len(block.param_names)
            /\ \E k \in 1..Len(block.param_names) :
                  /\ block.param_names[k] = target.value
                  /\ Unwrap(ps)[k].type = "Literal"
    THEN Some(Unwrap(ps)[CHOOSE k \in 1..Len(block.param_names) :
                           block.param_names[k] = target.value].value)
    ELSE None

\* C3: a use whose target evaluates to Literal(s) appends exactly s to the
\* render, at any depth, in the library as it is and in the library without
\* a block named s alike.
C3_LiteralVerbatim ==
    \A n \in DOMAIN blocks : \A ps \in ParamVectors :
      \A i \in 1..Len(blocks[n].elements) :
        LET e == blocks[n].elements[i]
            s == TargetLiteral(blocks[n], ps, e.target)
        IN  (e.type = "UseBlock" /\ IsSome(s)) =>
            \A library \in {blocks, Without(blocks, Unwrap(s))} :
              \A depth \in 0..1 :
                LET before == render_with_params(Prefix(blocks[n], i - 1),
                                                 library, ps, depth, 1)
                    after == render_with_params(Prefix(blocks[n], i),
                                                library, ps, depth, 1)
                IN  before.ok => after = Ok(before.val \o Unwrap(s))

\* g was called with the literal X while a block named X is registered
C3_Witness ==
    /\ <<"X">> \in DOMAIN blocks
    /\ op.name = "render"
    /\ op.arg = <<"m">>
    /\ op.result = Ok(<<"H", "i", SP, "X", "!">>)

(***************************************************************************)
(* The log of an export_all call.                                          *)
(***************************************************************************)
Events(kind) == {k \in 1..Len(log) : log[k].ev = kind}

Returned == pc = "idle" /\ op.name = "export_all"

\* the call began with one pending block export, whose rendered text
\* defines exactly one block, without an export declaration
OnePlainExpansion ==
    /\ Len(log) >= 2
    /\ Len(log[1].snapshot) = 1
    /\ log[2].ev = "render"
    /\ log[2].result.ok
    /\ parse(log[2].result.val).ok
    /\ Len(parse(log[2].result.val).val) = 1
    /\ parse(log[2].result.val).val[1].export = None

\* C4: with one block export whose rendered text defines one block without
\* export, export_all runs the body of the expansion loop once (one render,
\* one re-import), no block export is pending after it, and when the call
\* has returned Library::render of the new block's name succeeds.
C4_OnePass ==
    (OnePlainExpansion /\ (pc = "flush" \/ Returned)) =>
        /\ Cardinality(Events("pass")) = 1
        /\ Cardinality(Events("render")) = 1
        /\ Cardinality(Events("import")) = 1
        /\ block_exports = <<>>
        /\ Returned =>
              library_render(Lib, parse(log[2].result.val).val[1].name).ok

\* export_all returned Ok after the expansion of G, and K is registered
C4_Witness ==
    /\ Returned
    /\ op.result.ok
    /\ OnePlainExpansion
    /\ log[1].snapshot = <<(<<"G">>)>>
    /\ <<"K">> \in DOMAIN blocks

\* C6: when export_all returns an error, the call has written no file.
C6_NoPartialOutput ==
    (Returned /\ ~op.result.ok) => Events("write") = {}

FileRenders(name) ==
    {k \in Events("file_render") : log[k].name = name}

\* every file export render comes after the expansion loop, with nothing
\* pending, and every import is the import of a block export's render
AfterFixedPoint ==
    /\ \A k \in Events("file_render") :
          \A j \in Events("pass") \cup Events("render") \cup Events("import") :
              j < k
    /\ pc = "flush" => (block_exports = <<>> /\ todo = <<>>)
    /\ (Returned /\ Events("file_render") # {}) => block_exports = <<>>
    /\ \A k \in Events("import") :
          /\ k > 1
          /\ log[k - 1].ev = "render"
          /\ log[k - 1].result = Ok(log[k].text)

\* C7 as stated: in every run of export_all each file export is rendered
\* exactly once, after the fixed point, and its text is never imported.
C7_EveryRunRendersEach ==
    /\ Returned => \A name \in DOMAIN file_exports :
                      Cardinality(FileRenders(name)) = 1
    /\ AfterFixedPoint

\* C7, amended: in every run of export_all that returns Ok each file export
\* is rendered exactly once, and in every run at most once; every such
\* render comes after the fixed point, and its text is never imported.
C7_FileExportsOnceAtEnd ==
    /\ \A name \in DOMAIN file_exports :
          /\ Cardinality(FileRenders(name)) <= 1
          /\ (Returned /\ op.result.ok) => Cardinality(FileRenders(name)) = 1
    /\ AfterFixedPoint

\* export_all returned Ok after two passes and the render of the file
\* export J, which the second pass registered
C7_Witness ==
    /\ Returned
    /\ op.result.ok
    /\ Cardinality(Events("pass")) = 2
    /\ FileRenders(<<"J">>) # {}
    /\ <<"o">> \in DOMAIN output

\* the renders of a block export whose text declares a block export of the
\* same name
SelfRedeclaring ==
    {k \in Events("render") :
        /\ log[k].result.ok
        /\ parse(log[k].result.val).ok
        /\ \E b \in Range(parse(log[k].result.val).val) :
              /\ b.name = log[k].name
              /\ IsSome(b.export)
              /\ export_kind(Unwrap(b.export)) = "Block"}

\* C8 as stated: after the render of such a block export_all never returns.
C8_NeverReturns ==
    SelfRedeclaring # {} => pc \in {"expand", "flush"}

\* C8, amended: the re-import of such a text fails with the name-collision
\* error, the name being registered by the block that is expanded, and
\* export_all returns that error at once: nothing else happens in the call.
C8_SelfRedeclareFails ==
    \A k \in SelfRedeclaring :
        /\ Len(log) = k + 1
        /\ log[k + 1].ev = "import"
        /\ ~log[k + 1].result.ok
        /\ log[k + 1].result.err.msg = "Name taken"
        /\ pc \notin {"expand", "flush"}
        /\ op.name = "export_all" => op.result = log[k + 1].result

\* export_all returned the collision on R, which R's render declares again
C8_Witness ==
    /\ Returned
    /\ SelfRedeclaring # {}
    /\ op.result = Err([msg |-> "Name taken", name |-> <<"R">>])

\* the block name a use target stands for: written as a bare name, or #p
\* with the p-th parameter bound to Name(n); None otherwise
TargetName(block, ps, target) ==
    IF target.type = "Name" THEN Some(target.value)
    ELSE IF /\ target.type = "ParamName"
            /\ IsSome(ps)
            /\ Len(Unwrap(ps)) = Len(block.param_names)
            /\ \E k \in 1..Len(block.param_names) :
                  /\ block.param_names[k] = target.value
                  /\ Unwrap(ps)[k].type = "Name"
    THEN Some(Unwrap(ps)[CHOOSE k \in 1..Len(block.param_names) :
                           block.param_names[k] = target.value].value)
    ELSE None

\* the text of a block made of content alone
RECURSIVE ContentText(_, _)
ContentText(elements, i) ==
    IF i > Len(elements) THEN <<>>
    ELSE elements[i].content \o ContentText(elements, i + 1)

PlainBlock(block) ==
    /\ block.param_names = <<>>
    /\ \A k \in 1..Len(block.elements) : block.elements[k].type = "Content"

UnregisteredError(name) == [msg |-> "Using unregistered block", name |-> name]

\* C9: a use of the name n fails the render with the unregistered-block
\* error exactly when n is not registered at render time, and calls block n
\* when it is, whatever the order of the imports; import_from_string never
\* fails for a use of a name that is not registered.
C9_ResolvedAtRender ==
    /\ \A n \in DOMAIN blocks : \A ps \in ParamVectors :
        \A i \in 1..Len(blocks[n].elements) :
          LET e == blocks[n].elements[i]
              t == TargetName(blocks[n], ps, e.target)
              before == render_with_params(Prefix(blocks[n], i - 1), blocks,
                                           ps, 0, 1)
              after == render_with_params(Prefix(blocks[n], i), blocks,
                                          ps, 0, 1)
          IN  (e.type = "UseBlock" /\ IsSome(t) /\ before.ok) =>
                IF Unwrap(t) \notin DOMAIN blocks
                THEN after = Err(UnregisteredError(Unwrap(t)))
                ELSE /\ after # Err(UnregisteredError(Unwrap(t)))
                     /\ (PlainBlock(blocks[Unwrap(t)])
                         /\ e.arguments = None) =>
                           after = Ok(before.val \o
                                ContentText(blocks[Unwrap(t)].elements, 1))
    /\ op.name = "import_from_string" =>
          (op.result.ok \/ op.result.err.msg = "Name taken")

\* Y, which uses X, was imported before the unit that defines X, and its
\* render has called X
C9_Witness ==
    /\ Len(imported) = 2
    /\ Sources[imported[1]] = SrcY
    /\ Sources[imported[2]] = SrcX
    /\ op.name = "render"
    /\ op.arg = <<"Y">>
    /\ op.result = Ok(<<"a", "b">>)

(***************************************************************************)
(* Source texts and directive streams, as the parser's claims see them.    *)
(***************************************************************************)
\* a flag character that starts a run of flag characters
FirstOfRun(text, i) ==
    text[i] = COMMAND_FLAG /\ (i = 1 \/ text[i - 1] # COMMAND_FLAG)

\* a text contains a command when a single flag character is followed by
\* the start delimiter
NoCommand(text) ==
    \A i \in 1..(Len(text) - 1) :
        ~(/\ FirstOfRun(text, i)
          /\ text[i + 1] = COMMAND_START)

\* the elements of a sequence at the indices of a set, in order
RECURSIVE KeepFrom(_, _, _)
KeepFrom(seq, indices, i) ==
    IF i > Len(seq) THEN <<>>
    ELSE (IF i \in indices THEN <<seq[i]>> ELSE <<>>)
         \o KeepFrom(seq, indices, i + 1)

\* a text without the first flag character of each run
Unflagged(text) ==
    KeepFrom(text, {i \in 1..Len(text) : ~FirstOfRun(text, i)}, 1)

\* the directive stream Block::parse hands to Block::build
Directives == close_content(lx).components

LexReturned == lx.state \in {"Failed", "Panic"}

\* C5 as stated: a source text without a command parses to one implicit
\* block, whose render is the text.
C5_ImplicitBlock ==
    (NoCommand(source) /\ source # <<>>) =>
        /\ parse(source).ok
        /\ Len(parse(source).val) = 1
        /\ render(parse(source).val[1], <<>>) = Ok(source)

\* C5, amended: a source text without a command parses without error to no
\* block at all; the lexer makes of it at most one Content component, the
\* text without the first flag character of each run, and Block::build
\* skips it.
C5_NoCommandNoBlock ==
    NoCommand(source) =>
        /\ parse(source) = Ok(<<>>)
        /\ Directives = IF Unflagged(source) = <<>> THEN <<>>
                        ELSE <<CompElement(Content(Unflagged(source)))>>

\* a text of content and a flag character, without a command
C5_Witness ==
    /\ source = <<"a", COMMAND_FLAG, "a", NL>>
    /\ NoCommand(source)
    /\ parse(source) = Ok(<<>>)

\* a block is open at component i: an Open comes before it with no Close
\* in between
OpenAt(components, i) ==
    \E j \in 1..(i - 1) :
        /\ components[j].type = "Open"
        /\ \A k \in (j + 1)..(i - 1) : components[k].type # "Close"

\* the p, x, u, ui and e directives that come while no block is open
Stray(components) ==
    {i \in 1..Len(components) :
        /\ \/ components[i].type \in {"ParamName", "Export", "Close"}
           \/ /\ components[i].type = "Element"
              /\ components[i].element.type = "UseBlock"
        /\ ~OpenAt(components, i)}

\* the directive stream without what comes while no block is open
Inside(components) ==
    KeepFrom(components,
             {i \in 1..Len(components) :
                 components[i].type = "Open" \/ OpenAt(components, i)}, 1)

\* C10 as stated: a p, x, u, ui or e command while no block is open makes
\* the parse fail.
C10_StrayRejected ==
    (~LexReturned /\ Stray(Directives) # {}) => ~parse(source).ok

\* C10, amended: what comes while no block is open is skipped without
\* error: the parse returns what Block::build returns for the directives
\* inside the blocks alone.
C10_StraySkipped ==
    ~LexReturned => parse(source) = build(Inside(Directives))

\* a parse that returns one block, from a text with a directive before the
\* first n and another after the e
C10_Witness ==
    /\ ~LexReturned
    /\ parse(source).ok
    /\ Len(parse(source).val) = 1
    /\ \E i \in Stray(Directives) : Directives[i].type = "ParamName"
    /\ \E i \in Stray(Directives) :
          \E j \in 1..(i - 1) : Directives[j].type = "Close"

(***************************************************************************)
(* The commands of a text, as the lexer closes them.                       *)
(***************************************************************************)
\* the lexer after the first i characters of a text
LexAfter(text, i) == lex_from(LexInit, SubSeq(text, 1, i))

\* the places of a text where the lexer closes a command
CommandEnds(text) ==
    {i \in 1..Len(text) :
        /\ text[i] = COMMAND_END
        /\ LexAfter(text, i - 1).state = "Command"}

\* the text of the command closed at place i
CommandAt(text, i) == LexAfter(text, i - 1).buffer

\* the verbs that need an argument, standing alone
BareVerbs ==
    {NEW_BLOCK_COMMAND, DEFINE_PARAMS_COMMAND, ENABLE_EXPORT_COMMAND,
     USE_BLOCK_COMMAND, USE_BLOCK_INDENTED_COMMAND}

\* the grammar rejects a command
Rejected(command) ==
    /\ command # <<>>
    /\ commands_from_str(command).ok
    /\ ~block_components_from_commands(commands_from_str(command).val).ok

\* C11 as stated: a text with a command that is n, p, x, u or ui without
\* any argument does not parse.
C11_TooFewRejected ==
    (\E i \in CommandEnds(source) : CommandAt(source, i) \in BareVerbs)
        => ~parse(source).ok

\* C12 as stated: a text with a command the grammar rejects does not
\* parse, wherever the command stands, the end of the text included.
C12_RejectedNeverOk ==
    (\E i \in CommandEnds(source) : Rejected(CommandAt(source, i)))
        => ~parse(source).ok

(***************************************************************************)
(* The blocks of a directive stream, as the claims about Block::build see  *)
(* them: a block runs from an Open to the next Close, or to the end.       *)
(***************************************************************************)
Opens(components) ==
    {i \in 1..Len(components) : components[i].type = "Open"}

\* an Open while a block is open
NestedOpens(components) ==
    {i \in Opens(components) : OpenAt(components, i)}

\* j and i > j lie in one block, j inside of it
SameBlock(components, j, i) ==
    /\ j < i
    /\ OpenAt(components, j)
    /\ \A k \in (j + 1)..(i - 1) :
          components[k].type \notin {"Open", "Close"}

\* a parameter name that the same block has declared before
DuplicateParams(components) ==
    {i \in 1..Len(components) :
        /\ components[i].type = "ParamName"
        /\ \E j \in 1..(i - 1) :
              /\ components[j].type = "ParamName"
              /\ components[j].value = components[i].value
              /\ SameBlock(components, j, i)}

\* an export declaration of a block that has one
SecondExports(components) ==
    {i \in 1..Len(components) :
        /\ components[i].type = "Export"
        /\ \E j \in 1..(i - 1) :
              /\ components[j].type = "Export"
              /\ SameBlock(components, j, i)}

Defects(components) ==
    NestedOpens(components) \cup DuplicateParams(components)
        \cup SecondExports(components)

\* the first place of a non-empty set of places
First(places) == CHOOSE i \in places : \A j \in places : i <= j

\* the Open of the k-th block
NthOpen(components, k) ==
    CHOOSE o \in Opens(components) :
        Cardinality({j \in Opens(components) : j <= o}) = k

\* the place of the Close of the block opened at o, or the place after
\* the last directive
BlockEnd(components, o) ==
    LET closes == {i \in (o + 1)..Len(components) :
                      components[i].type = "Close"}
    IN  IF closes = {} THEN Len(components) + 1 ELSE First(closes)

\* the directives of one type in the block opened at o, in order
Declared(components, o, type) ==
    KeepFrom(components,
             {i \in (o + 1)..(BlockEnd(components, o) - 1) :
                 components[i].type = type}, 1)

DeclaredParams(components, o) ==
    [k \in 1..Len(Declared(components, o, "ParamName")) |->
        Declared(components, o, "ParamName")[k].value]

DeclaredElements(components, o) ==
    [k \in 1..Len(Declared(components, o, "Element")) |->
        Declared(components, o, "Element")[k].element]

\* C13: an n between an n and its e makes the parse fail and no block is
\* returned; the error is the illegally-nested-block error for that n when
\* it is the first thing Block::build stops at.
C13_NestedRejected ==
    (~LexReturned /\ NestedOpens(Directives) # {}) =>
        /\ ~parse(source).ok
        /\ First(Defects(Directives)) \in NestedOpens(Directives)
             => parse(source).err =
                  [msg |-> "Illegally nested block",
                   name |-> Directives[First(Defects(Directives))].name]

\* a block Y opened inside the block X, after a parameter of X
C13_Witness ==
    /\ source = Open(<<"X">>) \o Params(<<"a">>) \o Open(<<"Y">>) \o Close
    /\ NestedOpens(Directives) = {3}
    /\ parse(source) =
          Err([msg |-> "Illegally nested block", name |-> <<"Y">>])

\* C14: the param_names of every block a successful parse returns are the
\* names declared in it, in order, and pairwise distinct; a name declared
\* twice in one block, in one p command or in two, makes the parse fail.
C14_DistinctParams ==
    ~LexReturned =>
        /\ parse(source).ok =>
              \A k \in 1..Len(parse(source).val) :
                 LET names == parse(source).val[k].param_names
                 IN  /\ names = DeclaredParams(Directives,
                                               NthOpen(Directives, k))
                     /\ \A i, j \in 1..Len(names) :
                           i # j => names[i] # names[j]
        /\ DuplicateParams(Directives) # {} =>
              /\ ~parse(source).ok
              /\ First(Defects(Directives)) \in DuplicateParams(Directives)
                   => parse(source).err =
                        [msg |-> "Duplicate value defined",
                         name |->
                           Directives[First(Defects(Directives))].value]

\* the block X declares b, then a twice in one p command
C14_Witness ==
    /\ source = Open(<<"X">>) \o Params(<<"b">>)
                  \o Params(<<"a", SP, "a">>)
    /\ DuplicateParams(Directives) = {4}
    /\ parse(source) =
          Err([msg |-> "Duplicate value defined", name |-> <<"a">>])

\* C15: a second x in one block makes the parse fail, with the
\* multiple-exports error when it is the first thing Block::build stops
\* at; a block a successful parse returns has the export declared in it,
\* or none.
C15_OneExport ==
    ~LexReturned =>
        /\ parse(source).ok =>
              \A k \in 1..Len(parse(source).val) :
                 LET declared == Declared(Directives,
                                          NthOpen(Directives, k), "Export")
                 IN  /\ Len(declared) <= 1
                     /\ parse(source).val[k].export =
                           IF declared = <<>> THEN None
                           ELSE Some(declared[1].value)
        /\ SecondExports(Directives) # {} =>
              /\ ~parse(source).ok
              /\ First(Defects(Directives)) \in SecondExports(Directives)
                   => parse(source).err = E("Multiple exports defined")

\* the block X declares the exports f and g
C15_Witness ==
    /\ source = Open(<<"X">>) \o Export(<<"f">>) \o Export(<<"g">>)
                  \o Close
    /\ SecondExports(Directives) = {3}
    /\ parse(source) = Err(E("Multiple exports defined"))

\* a text that ends with a newline
EndsWithNewline(text) == text # <<>> /\ text[Len(text)] = NL

\* C16: the elements of a block closed by e are the elements written in
\* it, the last one without its final newline when it is a Content that
\* ends with a newline; in every other case no element is changed.
C16_TrimOnClose ==
    (~LexReturned /\ parse(source).ok) =>
        \A k \in 1..Len(parse(source).val) :
           LET o == NthOpen(Directives, k)
               written == DeclaredElements(Directives, o)
               n == Len(written)
           IN  parse(source).val[k].elements =
                 IF /\ BlockEnd(Directives, o) <= Len(Directives)
                    /\ written # <<>>
                    /\ written[n].type = "Content"
                    /\ EndsWithNewline(written[n].content)
                 THEN [written EXCEPT ![n] =
                         Content(SubSeq(written[n].content, 1,
                                        Len(written[n].content) - 1))]
                 ELSE written

\* a block whose content is two newlines keeps one of them
C16_Witness ==
    /\ source = Open(<<"X">>) \o <<NL, NL>> \o Close
    /\ parse(source) =
          Ok(<<MkBlock(<<"X">>, <<>>, None, <<Content(<<NL>>)>>)>>)

(***************************************************************************)
(* What the lexer does with the characters that follow a command or a     *)
(* flag character.                                                         *)
(***************************************************************************)
\* the lexer closes a command at the last character of a text, and the
\* command gives at least one directive
EndsDirective(text) ==
    /\ Len(text) \in CommandEnds(text)
    /\ Len(LexAfter(text, Len(text)).components)
          > Len(LexAfter(text, Len(text) - 1).components)

\* the last directive the lexer has made of a text is a use
LastIsUse(text) ==
    LET components == LexAfter(text, Len(text)).components
    IN  /\ components[Len(components)].type = "Element"
        /\ components[Len(components)].element.type = "UseBlock"

\* a text without its last n characters
DropLast(text, n) == SubSeq(text, 1, Len(text) - n)

\* C17: after the end delimiter of a command that gives a directive which
\* is not a use, the lexer skips one newline that follows at once and keeps
\* the newline after it; after a use it is in Content and keeps the
\* newline that follows.
C17_OneNewlineSkipped ==
    /\ (/\ EndsWithNewline(source)
         /\ EndsDirective(DropLast(source, 1)))
        => LET before == LexAfter(source, Len(source) - 1)
           IN  /\ lx.state = "Content"
               /\ lx.components = before.components
               /\ before.buffer = <<>>
               /\ IF LastIsUse(DropLast(source, 1))
                  THEN before.state = "Content" /\ lx.buffer = <<NL>>
                  ELSE before.state = "SkipNewline" /\ lx.buffer = <<>>
    /\ (/\ EndsWithNewline(source)
         /\ EndsWithNewline(DropLast(source, 1))
         /\ EndsDirective(DropLast(source, 2))
         /\ ~LastIsUse(DropLast(source, 2)))
        => /\ lx.state = "Content"
           /\ lx.buffer = <<NL>>

\* an e, the newline it skips, the newline kept after it, then a use and
\* the newline kept after the use
C17_Witness ==
    /\ source = Close \o <<NL>> \o Cmd(<<"u", SP, "B">>) \o <<NL>>
    /\ lx.components =
          <<CompClose, CompElement(Content(<<NL>>)),
            CompElement(UseBlock(FALSE, ArgName(<<"B">>), None))>>
    /\ lx.buffer = <<NL>>

\* C18 as stated: a flag character met in Content and followed by a
\* character that is neither the start delimiter nor a flag character
\* stays in the content, and so does that character.
C18_FlagKept ==
    (/\ Len(source) >= 2
     /\ source[Len(source) - 1] = COMMAND_FLAG
     /\ source[Len(source)] \notin {COMMAND_START, COMMAND_FLAG}
     /\ LexAfter(source, Len(source) - 2).state = "Content")
    => /\ lx.state = "Content"
       /\ lx.buffer = LexAfter(source, Len(source) - 2).buffer
                         \o <<COMMAND_FLAG, source[Len(source)]>>

(***************************************************************************)
(* Indentation, as the claims about the renderer state it.                 *)
(***************************************************************************)
\* the newlines among the first k characters of a text
Newlines(text, k) == Cardinality({j \in 1..k : text[j] = NL})

\* where the k-th character of a text stands once d tabs follow each
\* newline
ShiftedPlace(text, d, k) == k + d * Newlines(text, k - 1)

\* r is the text with exactly d tabs put after every newline, and nothing
\* else changed
IsShifted(text, d, r) ==
    /\ Len(r) = Len(text) + d * Newlines(text, Len(text))
    /\ \A k \in 1..Len(text) : r[ShiftedPlace(text, d, k)] = text[k]
    /\ \A q \in 1..Len(r) :
          (\A k \in 1..Len(text) : ShiftedPlace(text, d, k) # q)
              => r[q] = TAB

\* C19: a Content rendered at indentation 0 is the text itself; rendered
\* at indentation d > 0 it is the text with exactly d tabs after every
\* newline and no other change.
C19_ContentIndented ==
    op.name = "render_with_params" =>
        /\ op.result.ok
        /\ op.arg.indentation = 0 => op.result.val = op.arg.content
        /\ IsShifted(op.arg.content, op.arg.indentation, op.result.val)

\* two lines rendered at indentation 2
C19_Witness ==
    /\ op.name = "render_with_params"
    /\ op.arg = [content |-> <<"a", NL, "a", NL>>, indentation |-> 2]
    /\ op.result = Ok(<<"a", NL, TAB, TAB, "a", NL, TAB, TAB>>)

\* a content of several lines that ends with two indent units
EndsWithTwoUnits(content) ==
    /\ Len(content) >= 3
    /\ content[Len(content) - 2] = NL
    /\ content[Len(content) - 1] = TAB
    /\ content[Len(content)] = TAB

\* the content of a block of the library that is one Content
BodyOf(name) == IndentLibrary[name].elements[1].content

\* what follows the content in a render
AfterContent(content, r) == SubSeq(r, Len(content) + 1, Len(r))

\* C20 as stated: after a content that ends with two indent units, the ui
\* reference to the one-line block B renders B's content two indent units
\* further than the u reference does.
C20_OneLineShifted ==
    (/\ op.name = "render"
     /\ EndsWithTwoUnits(op.arg.content)
     /\ op.arg.target = <<"B">>)
    => op.result =
         Ok(op.arg.content
            \o (IF op.arg.indented THEN Tabs(2) ELSE <<>>) \o BodyOf(<<"B">>))

\* C20, amended: after a content that ends with two indent units, the u
\* reference renders the block's content as it is, and the ui reference
\* renders it with two tabs after each of its newlines: the first line is
\* not shifted, and a one-line block renders the same both ways.
C20_LaterLinesShifted ==
    (op.name = "render" /\ EndsWithTwoUnits(op.arg.content)) =>
        /\ op.result.ok
        /\ SubSeq(op.result.val, 1, Len(op.arg.content)) = op.arg.content
        /\ IsShifted(BodyOf(op.arg.target),
                     IF op.arg.indented THEN 2 ELSE 0,
                     AfterContent(op.arg.content, op.result.val))
        /\ op.arg.target = <<"B">> =>
              op.result = Ok(op.arg.content \o BodyOf(<<"B">>))

\* the two-line block T after "a", a newline and two tabs
C20_Witness ==
    /\ op.name = "render"
    /\ op.arg = [content |-> <<"a", NL, TAB, TAB>>, indented |-> TRUE,
                  target |-> <<"T">>]
    /\ op.result =
          Ok(<<"a", NL, TAB, TAB, "b", NL, TAB, TAB, "c">>)

(***************************************************************************)
(* The indentation a use passes on, as C21 states it.                      *)
(***************************************************************************)
\* a text with d tabs put after every newline
ShiftText(text, d) ==
    [q \in 1..(Len(text) + d * Newlines(text, Len(text))) |->
        IF \E k \in 1..Len(text) : ShiftedPlace(text, d, k) = q
        THEN text[CHOOSE k \in 1..Len(text) : ShiftedPlace(text, d, k) = q]
        ELSE TAB]

\* the number of indent units the last line of a text starts with
LastLineUnits(text) ==
    LET start == IF Newlines(text, Len(text)) = 0 THEN 1
                 ELSE 1 + CHOOSE k \in 1..Len(text) :
                            /\ text[k] = NL
                            /\ Newlines(text, k) = Newlines(text, Len(text))
        line == SubSeq(text, start, Len(text))
    IN  CHOOSE n \in 0..Len(line) :
            /\ \A j \in 1..n : line[j] = TAB
            /\ n = Len(line) \/ line[n + 1] # TAB

\* nested_indent after the Content elements first and then second
NestedAfter(first, second) ==
    IF Newlines(second, Len(second)) > 0 THEN LastLineUnits(second)
    ELSE IF Newlines(first, Len(first)) > 0 THEN LastLineUnits(first)
    ELSE 0

\* C21: a u passes the depth 0 to the block it names and a ui passes the
\* caller's depth plus nested_indent, the indent units at the start of the
\* last line of the latest Content of the caller that has a newline, 0 if
\* there is none; a Content without newline and a use leave it as it is.
C21_CalleeDepth ==
    op.name = "render_with_params of uses" =>
        LET first == SubSeq(op.arg.content, 1, op.arg.split)
            second == SubSeq(op.arg.content, op.arg.split + 1,
                             Len(op.arg.content))
            d == op.arg.indentation
        IN  op.result =
              Ok(ShiftText(first, d)
                 \o BodyOf(<<"B">>)
                 \o ShiftText(second, d)
                 \o ShiftText(BodyOf(<<"T">>), d + NestedAfter(first, second))
                 \o BodyOf(<<"T">>))

\* at depth 1, a Content that ends with a line of one tab, a use, a
\* Content without newline, then the ui: T's second line gets two tabs
C21_Witness ==
    /\ op.name = "render_with_params of uses"
    /\ op.arg = [content |-> <<"a", NL, TAB, "a">>, split |-> 3,
                  indentation |-> 1]
    /\ op.result =
          Ok(<<"a", NL, TAB, TAB, "b", "a", "b", NL, TAB, TAB, "c",
               "b", NL, "c">>)

(***************************************************************************)
(* The arguments of a use, as C22 states their evaluation.                 *)
(***************************************************************************)
\* the arguments of the use that M consists of
CallArguments == Unwrap(op.arg.block.elements[1].arguments)

\* a #q that M has not bound: M was passed nothing, or q is not p
UnboundAt(i) ==
    /\ CallArguments[i].type = "ParamName"
    /\ \/ ~IsSome(op.arg.params)
       \/ CallArguments[i].value # <<"p">>

\* what the i-th argument evaluates to in the bindings of M
CallValue(i) ==
    CASE CallArguments[i].type = "Literal" ->
            ParameterLiteral(CallArguments[i].value)
      [] CallArguments[i].type = "Name" ->
            ParameterName(CallArguments[i].value)
      [] CallArguments[i].type = "ParamName" -> Unwrap(op.arg.params)[1]

\* what G shows of a value: the literal, or the render of the block X
Shown(value) == IF value.type = "Literal" THEN value.value ELSE <<"x">>

\* C22: the arguments of a use are evaluated in the bindings of the
\* calling block and the i-th value is bound to the i-th parameter name of
\* the block used; a #q the calling block has not bound makes the render
\* fail, also when the block used declares q.
C22_ArgumentsBound ==
    (/\ op.name = "render_with_params of a call"
     /\ IsSome(op.arg.block.elements[1].arguments))
    => IF \E i \in 1..Len(CallArguments) : UnboundAt(i)
       THEN op.result =
              Err([msg |-> "Param named does not exist",
                   name |-> CallArguments[
                       First({i \in 1..Len(CallArguments) : UnboundAt(i)})
                     ].value])
       ELSE Len(CallArguments) = 2
            => op.result = Ok(Shown(CallValue(1)) \o <<"-">>
                              \o Shown(CallValue(2)))

\* M is passed the literal V for p and uses G with #p and the literal L
C22_Witness ==
    /\ op.name = "render_with_params of a call"
    /\ op.arg.params = Some(<<ParameterLiteral(<<"V">>)>>)
    /\ op.arg.block.elements[1].arguments =
          Some(<<ArgParamName(<<"p">>), ArgLiteral(<<"L">>)>>)
    /\ op.result = Ok(<<"V", "-", "L">>)

(***************************************************************************)
(* The export lists and the blocks map.                                    *)
(***************************************************************************)
\* C23: in every state a sequence of import_from_string and export_all
\* calls reaches, every name in the pending block-export list and every key
\* of the file-export map is a key of the blocks map, and no name is in
\* both.
C23_ExportsRegistered ==
    /\ Range(block_exports) \subseteq DOMAIN blocks
    /\ DOMAIN file_exports \subseteq DOMAIN blocks
    /\ Range(block_exports) \cap DOMAIN file_exports = {}

\* an export_all has returned and an import after it has: the library
\* holds a pending block export and a file export
C23_Witness ==
    /\ pc = "idle"
    /\ export_calls > 0
    /\ op.name = "import_from_string"
    /\ DOMAIN file_exports # {}
    /\ block_exports # <<>>

(***************************************************************************)
(* What a step does to the blocks that are registered.                     *)
(***************************************************************************)
\* the blocks of a parsed unit that come before the first one whose name
\* is taken
MergedBefore(parsed, names, registered_names) ==
    {parsed.val[j] : j \in {j \in 1..Len(names) :
        \A k \in TakenAt(names, registered_names) : j < k}}

\* C24: no step of import_from_string or export_all replaces or removes a
\* registered block, and an import that fails leaves registered the blocks
\* of its unit that come before the failing one.
C24_BlocksKept ==
    [][/\ \A n \in DOMAIN blocks :
            n \in DOMAIN blocks' /\ blocks'[n] = blocks[n]
       /\ \A i \in 1..Len(Sources) :
            (pc = "idle" /\ imported' = Append(imported, i)
             /\ ~op'.result.ok)
            => \A parsed \in {ParsedSources[i]} :
                 \A b \in MergedBefore(parsed, DefinedNames(parsed),
                                       DOMAIN blocks) :
                    b.name \in DOMAIN blocks' /\ blocks'[b.name] = b]_vars

\* the unit that defines X twice was imported first and refused, and the
\* first of its two blocks is registered
C24_Witness ==
    /\ Len(imported) = 1
    /\ Sources[imported[1]] = SrcTwice
    /\ op.name = "import_from_string"
    /\ ~op.result.ok
    /\ <<"X">> \in DOMAIN blocks
    /\ blocks[<<"X">>].elements = <<Content(<<"v">>)>>

(***************************************************************************)
(* What the lexer does with a flag character that comes directly after a   *)
(* command.                                                                *)
(***************************************************************************)
\* the text ends with the given characters, after a directive that the
\* lexer has closed right before them
DirectlyAfterDirective(text, last) ==
    /\ Len(text) > Len(last)
    /\ SubSeq(text, Len(text) - Len(last) + 1, Len(text)) = last
    /\ EndsDirective(DropLast(text, Len(last)))

\* C25: a flag character directly after the end delimiter of a command
\* that is not a use is buffered as content, and a command written there
\* is content too: it gives no directive; directly after a use the flag
\* character starts a command, and the command written there gives its
\* directive.
C25_FlagAfterCommand ==
    /\ DirectlyAfterDirective(source, <<COMMAND_FLAG>>)
        => IF LastIsUse(DropLast(source, 1))
           THEN lx.state = "CommandFlag" /\ lx.buffer = <<>>
           ELSE lx.state = "Content" /\ lx.buffer = <<COMMAND_FLAG>>
    /\ \A command \in AdjacentCommands :
         DirectlyAfterDirective(source, command)
         => \A before \in {LexAfter(source, Len(source) - Len(command))} :
              IF LastIsUse(DropLast(source, Len(command)))
              THEN /\ EndsDirective(source)
                   /\ Len(lx.components) = Len(before.components) + 1
              ELSE /\ lx.state = "Content"
                   /\ lx.buffer = command
                   /\ lx.components = before.components

\* an e directly after a use is a directive, and the n directly after that
\* e is content
C25_Witness ==
    /\ source = Cmd(<<"u", SP, "B">>) \o Cmd(END_BLOCK_COMMAND)
                  \o Cmd(NEW_BLOCK_COMMAND \o <<SP, "X">>)
    /\ lx.components =
          <<CompElement(UseBlock(FALSE, ArgName(<<"B">>), None)), CompClose>>
    /\ lx.state = "Content"
    /\ lx.buffer = Cmd(NEW_BLOCK_COMMAND \o <<SP, "X">>)

(***************************************************************************)
(* The block the input ends in, and the number of blocks.                  *)
(***************************************************************************)
\* the last Open of a directive stream that has one
LastOpen(components) ==
    CHOOSE o \in Opens(components) : \A j \in Opens(components) : j <= o

\* the export declared in the block opened at o
DeclaredExport(components, o) ==
    IF Declared(components, o, "Export") = <<>> THEN None
    ELSE Some(Declared(components, o, "Export")[1].value)

\* C26: a block that no e closes before the input ends is returned without
\* error, with the parameters, the export and the elements written in it
\* and no newline trimmed; the blocks returned are as many as the n
\* directives that come while no block is open.
C26_UnclosedReturned ==
    ~LexReturned =>
      \A parsed \in {parse(source)} : \A components \in {Directives} :
        /\ (/\ Opens(components) # {}
             /\ Defects(components) = {}
             /\ BlockEnd(components, LastOpen(components))
                   > Len(components))
            => /\ parsed.ok
               /\ parsed.val[Len(parsed.val)] =
                     MkBlock(components[LastOpen(components)].name,
                             DeclaredParams(components, LastOpen(components)),
                             DeclaredExport(components, LastOpen(components)),
                             DeclaredElements(components,
                                              LastOpen(components)))
        /\ parsed.ok
            => Len(parsed.val) =
                 Cardinality(Opens(components) \ NestedOpens(components))

\* the input ends in the block X, after a parameter and a line of content
C26_Witness ==
    /\ source = Open(<<"X">>) \o Params(<<"a">>) \o <<"a">> \o <<NL>>
    /\ parse(source) =
          Ok(<<MkBlock(<<"X">>, <<<<"a">>>>, None,
                       <<Content(<<"a", NL>>)>>)>>)

====
